---- MODULE Spec2Model ----
(***************************************************************************)
(* Model of zeropad's TerminalPanel (src/zeropad/terminal_panel.py): the   *)
(* xterm+tmux embed, its supervisor tick, cwd bridge, size reconciler and  *)
(* shutdown, together with the environment it drives (the xterm process,   *)
(* the tmux server on the private socket, the Tk timer queue, the clock).  *)
(*                                                                         *)
(* Every Python method is an operator from a state record to a state       *)
(* record, composed in the order the code calls them; an action applies    *)
(* one whole Tk callback to the current state.  Each callback starts with  *)
(* an empty log and appends, in program order, every external effect it    *)
(* has (tmux commands, signals, process creation, Tk after() calls).       *)
(***************************************************************************)
EXTENDS Integers, Sequences, FiniteSets, TLC

(* ------------------------------ bounds -------------------------------- *)

\* Clock resolution: ticks per second of time.time().
TicksPerSecond == 2
\* The clock runs from its start value for this many ticks.
MaxElapsed == 3
\* Real directories are 1..MaxPath; one more name is a symlink to directory 1.
MaxPath == 2
\* Fixed-point scale of the float cell_w / cell_h (units per pixel).
CellScale == 1000
\* The container lists at most this many child windows.
MaxChildren == 3

(* ------------------------- program constants -------------------------- *)

\* RESPAWN_COOLDOWN = 1.0 (seconds)
RESPAWN_COOLDOWN == 1
\* alpha = 0.35, in percent
ALPHA_PCT == 35
DEFAULT_CELL_W == 8
DEFAULT_CELL_H == 16
DEFAULT_COLS == 80
DEFAULT_ROWS == 24
MIN_COLS == 20
MAX_COLS == 400
MIN_ROWS == 5
MAX_ROWS == 200

CooldownTicks == RESPAWN_COOLDOWN * TicksPerSecond
\* time.time() is seconds since the epoch and _last_respawn starts at 0.0,
\* so the first cooldown test always passes: the clock starts one cooldown
\* after 0.
StartTime == CooldownTicks
MaxTime == StartTime + MaxElapsed

(* ------------------------------ values -------------------------------- *)

\* Python None for integer-valued fields (a pid, a window id, a path, a size).
NoneInt == 0 - 1
Paths == 1..MaxPath
LinkPath == MaxPath + 1
RawPaths == 1..LinkPath
\* Path.resolve(): follows the symlink, leaves a real directory as it is.
Resolve(p) == IF p = LinkPath THEN 1 ELSE p

NoGrid == <<NoneInt, NoneInt>>

Max(a, b) == IF a >= b THEN a ELSE b
Min(a, b) == IF a <= b THEN a ELSE b

\* Python 3 round() of the rational n/d (d > 0, n >= 0): half to even.
RoundHalfEven(n, d) ==
  LET q == n \div d
      r == n % d
  IN  IF 2 * r < d THEN q
      ELSE IF 2 * r > d THEN q + 1
      ELSE IF q % 2 = 0 THEN q ELSE q + 1

\* Python's `a or b` on Optional[int]: None and 0 are falsy.
PyOr(a, b) == IF a # NoneInt /\ a # 0 THEN a ELSE b

(* ------------------------------- state -------------------------------- *)

VARIABLES
  \* TerminalPanel fields (init_terminal_panel)
  xterm_proc,      \* pid of the Popen handle, or NoneInt
  xterm_started,
  tmux_ready,
  last_tmux_cwd,   \* resolved path or NoneInt
  pending_cd,      \* resolved path or NoneInt
  cell_w, cell_h,  \* fixed point, CellScale units per pixel
  client_tty,      \* pid whose tmux client the tty names, or NoneInt
  x_dpy,           \* id of the Xlib connection held, or NoneInt
  x_child,         \* cached native window id (the owning pid), or NoneInt
  last_respawn,    \* clock value, 0 initially
  terminal_active, intercept_installed,
  \* Zeropad.cwd (main.py)
  cwd,
  \* Tk timer queue: pending after() callbacks, by callback
  after,
  \* environment
  now,             \* time.time(), in ticks
  mapped,          \* _term_container.winfo_ismapped()
  have_xterm,      \* shutil.which("xterm")
  have_tmux,       \* shutil.which("tmux")
  nspawn,          \* processes created so far (the next pid is nspawn + 1)
  alive,           \* pids of xterm processes that have not terminated
  booting,         \* alive pids whose `tmux new-session` child has not run yet
  session,         \* the tmux server on TMUX_SOCK has session "zeropad"
  attached,        \* pid of the xterm whose tmux client is attached, or NoneInt
  sess_cwd,        \* #{pane_current_path}
  sess_keys,       \* the cd typed into the pane by send-keys and not yet run
  sess_client,     \* #{client_width} #{client_height} of an attached client
  sess_pane,       \* #{pane_width} #{pane_height} of the session's pane
  tmux_dir,        \* TMUX_DIR exists
  displays,        \* ids of the open Xlib connections
  container,       \* <<winfo_width, winfo_height>> of _term_container
  win_size,        \* <<width, height>> of the live xterm's window, last configured
  tree,            \* query_tree().children of the container, in the server's order
  cleaned,         \* _terminal_cleanup has run
  last_full_respawn, \* history: the clock at the last _respawn_xterm_and_tmux
  notices,         \* history: missing-dependency notices shown so far
  notice_label,    \* the Label in the container: "none", or its first bindtag
  \* the callback that ran last and what it did, in program order:
  op,              \* its name
  log,             \* the calls it made and their external effects
  cds,             \* the paths of its directory injections (_tmux_cd_to)
  sizes,           \* the grids of its refresh-client commands
  wanted           \* the grid (want_cols, want_rows) it computed, if any

vars == <<xterm_proc, xterm_started, tmux_ready, last_tmux_cwd, pending_cd,
          cell_w, cell_h, client_tty, x_dpy, x_child, last_respawn,
          terminal_active, intercept_installed, cwd, after, now, mapped, have_xterm, have_tmux, nspawn, alive, booting,
          session, attached, sess_cwd, sess_keys, sess_client, sess_pane,
          tmux_dir, displays, container, win_size, tree, cleaned,
          last_full_respawn, notices, notice_label,
          op, log, cds, sizes, wanted>>

\* The current state as one record, the callback's log empty.
Cur(name) ==
  [xterm_proc |-> xterm_proc, xterm_started |-> xterm_started,
   tmux_ready |-> tmux_ready, last_tmux_cwd |-> last_tmux_cwd,
   pending_cd |-> pending_cd, cell_w |-> cell_w, cell_h |-> cell_h,
   client_tty |-> client_tty, x_dpy |-> x_dpy, x_child |-> x_child,
   last_respawn |-> last_respawn, terminal_active |-> terminal_active,
   intercept_installed |-> intercept_installed, cwd |-> cwd, after |-> after, now |-> now,
   mapped |-> mapped, have_xterm |-> have_xterm, have_tmux |-> have_tmux,
   nspawn |-> nspawn, alive |-> alive, booting |-> booting,
   session |-> session, attached |-> attached, sess_cwd |-> sess_cwd,
   sess_keys |-> sess_keys, sess_client |-> sess_client,
   sess_pane |-> sess_pane, tmux_dir |-> tmux_dir, displays |-> displays,
   container |-> container, win_size |-> win_size, tree |-> tree,
   cleaned |-> cleaned,
   last_full_respawn |-> last_full_respawn, notices |-> notices,
   notice_label |-> notice_label,
   op |-> name, log |-> <<>>, cds |-> <<>>, sizes |-> <<>>,
   wanted |-> NoGrid]

\* The next state is the record s.
Becomes(s) ==
  \E t \in {s} :
    /\ xterm_proc' = t.xterm_proc /\ xterm_started' = t.xterm_started
    /\ tmux_ready' = t.tmux_ready /\ last_tmux_cwd' = t.last_tmux_cwd
    /\ pending_cd' = t.pending_cd /\ cell_w' = t.cell_w /\ cell_h' = t.cell_h
    /\ client_tty' = t.client_tty /\ x_dpy' = t.x_dpy /\ x_child' = t.x_child
    /\ last_respawn' = t.last_respawn
    /\ terminal_active' = t.terminal_active
    /\ intercept_installed' = t.intercept_installed
    /\ cwd' = t.cwd /\ after' = t.after
    /\ now' = t.now /\ mapped' = t.mapped /\ have_xterm' = t.have_xterm
    /\ have_tmux' = t.have_tmux /\ nspawn' = t.nspawn /\ alive' = t.alive
    /\ booting' = t.booting /\ session' = t.session /\ attached' = t.attached
    /\ sess_cwd' = t.sess_cwd /\ sess_keys' = t.sess_keys
    /\ sess_client' = t.sess_client /\ sess_pane' = t.sess_pane
    /\ tmux_dir' = t.tmux_dir /\ displays' = t.displays
    /\ container' = t.container /\ win_size' = t.win_size
    /\ tree' = t.tree
    /\ cleaned' = t.cleaned /\ last_full_respawn' = t.last_full_respawn
    /\ notices' = t.notices /\ wanted' = t.wanted
    /\ notice_label' = t.notice_label
    /\ op' = t.op /\ log' = t.log /\ cds' = t.cds /\ sizes' = t.sizes

\* One statement after another: f applied to the state s, s computed once.
Then(s, f(_)) == CHOOSE r \in {f(t) : t \in {s}} : TRUE

Log(s, x) == [s EXCEPT !.log = Append(@, x)]
\* self.after(ms, cb): one more pending callback cb.
After(s, cb) == [s EXCEPT !.after[cb] = @ + 1]

(* --------------------------- tmux helpers ----------------------------- *)

\* The directory a new tmux session starts in (the application's own cwd):
\* the directory the symlink names.
StartDir == Resolve(LinkPath)

\* _tmux_has_session: the command it runs, and its result.
run_has_session(s) == IF s.have_tmux THEN Log(s, "has-session") ELSE s
tmux_has_session(s) == s.have_tmux /\ s.session

\* _tmux_first_client_tty
run_first_client_tty(s) == IF s.have_tmux THEN Log(s, "list-clients") ELSE s
tmux_first_client_tty(s) ==
  IF s.have_tmux /\ s.session THEN s.attached ELSE NoneInt

\* _tmux_get_cwd
run_get_cwd(s) == IF s.have_tmux THEN Log(s, "display-message cwd") ELSE s
tmux_get_cwd(s) == IF s.have_tmux /\ s.session THEN s.sess_cwd ELSE NoneInt

\* _tmux_get_pane_size
run_get_pane_size(s) == IF s.have_tmux THEN Log(s, "display-message pane") ELSE s
tmux_get_pane_size(s) ==
  IF s.have_tmux /\ s.session THEN s.sess_pane ELSE NoGrid

\* _tmux_get_client_size: -t client_tty when one is cached; a tty that names
\* no attached client makes the query fail.
run_get_client_size(s) ==
  IF s.have_tmux THEN Log(s, "display-message client") ELSE s
tmux_get_client_size(s) ==
  IF /\ s.have_tmux /\ s.session /\ s.attached # NoneInt
     /\ (s.client_tty = NoneInt \/ s.client_tty = s.attached)
  THEN s.sess_client ELSE NoGrid

\* _tmux_refresh_client; `applies` is whether the session takes the size.
tmux_refresh_client(s, cols, rows, applies) ==
  IF ~s.have_tmux THEN s
  ELSE LET a == [Log(s, "refresh-client") EXCEPT
                   !.sizes = Append(@, <<cols, rows>>)]
       IN  IF applies /\ tmux_get_client_size(s) # NoGrid
           THEN [a EXCEPT !.sess_client = <<cols, rows>>,
                          !.sess_pane = <<cols, rows>>]
           ELSE a

\* _tmux_cd_to: C-u, C-k, the literal cd, Enter, C-l, then the bookkeeping.
tmux_cd_to(s, path) ==
  IF ~s.have_tmux THEN s
  ELSE LET a == Log(Log(Log(Log(Log(s, "send-keys C-u"), "send-keys C-k"),
                    "send-keys cd"), "send-keys Enter"), "send-keys C-l")
       IN  [a EXCEPT !.cds = Append(@, path),
                     !.sess_keys = IF s.session THEN path ELSE @,
                     !.last_tmux_cwd = Resolve(path)]

\* _tmux_quiet_bell
tmux_quiet_bell(s) ==
  IF ~s.have_tmux THEN s
  ELSE Log(Log(Log(s, "set-option bell-action"),
           "set-option visual-activity"), "set-option monitor-activity")

\* The session is gone from the socket (or the socket from the disk).
session_lost(s) ==
  [s EXCEPT !.session = FALSE, !.attached = NoneInt,
            !.sess_cwd = StartDir, !.sess_keys = NoneInt]

\* `tmux kill-server` on the private socket.
kill_server(s) == session_lost(Log(s, "kill-server"))

\* A new session on the socket: attached to pid's client, or detached.
new_session(s, pid) ==
  [s EXCEPT !.session = TRUE, !.attached = pid, !.sess_cwd = StartDir,
            !.sess_keys = NoneInt]

\* An xterm process is gone: its tmux client with it.
proc_gone(s, p) ==
  [s EXCEPT !.alive = @ \ {p}, !.booting = @ \ {p},
            !.attached = IF @ = p THEN NoneInt ELSE @,
            !.tree = SelectSeq(@, LAMBDA c : c.id # p)]

\* Faulty variant: the signal sent, the process neither waited for nor force-killed
terminate_unwaited(s, p, exits) ==
  IF p \notin s.alive \/ exits THEN proc_gone(Log(s, "SIGTERM"), p)
  ELSE Log(s, "SIGTERM")
\* Faulty variant: the group force-killed whether the wait returned or not
terminate_force_always(s, p, exits) ==
  proc_gone(Log(Log(Log(s, "SIGTERM"), "wait"), "SIGKILL"), p)
\* os.killpg(pid, SIGTERM); p.wait(timeout); on timeout os.killpg(pid, SIGKILL).
\* `exits`: a live process exits within the grace period; otherwise wait()
\* raises TimeoutExpired.
terminate(s, p, exits) ==
  LET a == Log(Log(s, "SIGTERM"), "wait")
  IN  IF p \notin s.alive \/ exits THEN proc_gone(a, p)
      ELSE proc_gone(Log(Log(a, "TimeoutExpired"), "SIGKILL"), p)

(* ----------------------------- cwd bridge ----------------------------- *)

\* Faulty variant: a set_cwd that hands the directory back to the terminal
set_cwd_echo(s, new_path) ==
  tmux_cd_to([Log(s, "set_cwd") EXCEPT !.cwd = Resolve(new_path)],
             Resolve(new_path))
\* Zeropad.set_cwd (every modelled directory exists).
set_cwd(s, new_path) == [Log(s, "set_cwd") EXCEPT !.cwd = Resolve(new_path)]

\* Faulty variant: the request injected without the readiness test
terminal_set_cwd_eager(s, path) == tmux_cd_to(s, Resolve(path))

\* Faulty variant: the deferred path recorded as the session's directory too
terminal_set_cwd_records(s, path) ==
  IF ~s.tmux_ready
  THEN [s EXCEPT !.pending_cd = Resolve(path), !.last_tmux_cwd = Resolve(path)]
  ELSE tmux_cd_to(s, Resolve(path))

terminal_set_cwd(s, path) ==
  LET target == Resolve(path)
  IN  IF ~s.tmux_ready THEN [s EXCEPT !.pending_cd = target]
      ELSE tmux_cd_to(s, target)

(* ------------------------ activation / intercept ---------------------- *)

\* The widgets of the tree: those init builds, which carry the intercept
\* tag in front exactly when _intercept_installed is set, and the notice
\* Label, created later, whose first bindtag is "plain" (its own) or
\* "intercept".
\* Faulty variant: the widgets walked again although the tag is installed
install_unguarded(s) ==
  [s EXCEPT !.intercept_installed = TRUE,
            !.notice_label = IF @ = "none" THEN @ ELSE "intercept"]
install_global_intercept(s) ==
  IF s.intercept_installed THEN s
  ELSE [s EXCEPT !.intercept_installed = TRUE,
                 !.notice_label = IF @ = "none" THEN @ ELSE "intercept"]

remove_global_intercept(s) ==
  IF ~s.intercept_installed THEN s
  ELSE [s EXCEPT !.intercept_installed = FALSE,
                 !.notice_label = IF @ = "none" THEN @ ELSE "plain"]

on_terminal_click(s) ==
  install_global_intercept([s EXCEPT !.terminal_active = TRUE])

on_terminal_focus(s) ==
  install_global_intercept([s EXCEPT !.terminal_active = TRUE])

\* Faulty variant: a blur that leaves the terminal active
on_terminal_blur_stays_active(s) == remove_global_intercept(s)
on_terminal_blur(s) ==
  remove_global_intercept([s EXCEPT !.terminal_active = FALSE])

tmux_send_ctrl(s, letter) ==
  IF ~s.tmux_ready THEN s
  ELSE IF ~s.have_tmux THEN s
  ELSE Log(s, "send-keys C-" \o letter)

\* The handler bound to <Control-Key-d> on the intercept tag; "break" in the
\* log is its return value.
intercept_ctrl(s, ks) ==
  IF ~s.terminal_active THEN s
  ELSE IF ks = "d" THEN Log(tmux_send_ctrl(s, "d"), "break")
  ELSE s

(* -------------------------- lifecycle / spawn ------------------------- *)

\* What the environment decides during one callback:
\*   popen_ok    subprocess.Popen succeeds
\*   dpy_ok      xdisplay.Display() succeeds
\*   term_exits  a live process exits within the grace period after SIGTERM
\*   xerr        a configure of a vanished window raises
\*   applies     the session takes the size of a refresh-client
\*   ks_ok, close_ok, rm_ok   shutdown's kill-server, close and rmdir succeed
Inputs ==
  [popen_ok : BOOLEAN, dpy_ok : BOOLEAN, term_exits : BOOLEAN,
   xerr : BOOLEAN, applies : BOOLEAN, tree_ok : BOOLEAN,
   ks_ok : BOOLEAN, close_ok : BOOLEAN, rm_ok : BOOLEAN]
Nominal ==
  [popen_ok |-> TRUE, dpy_ok |-> TRUE, term_exits |-> TRUE, xerr |-> TRUE,
   applies |-> TRUE, tree_ok |-> TRUE, ks_ok |-> TRUE, close_ok |-> TRUE, rm_ok |-> TRUE]

\* _show_error: the container's Tk children destroyed, a new Label packed.
show_error(s) == [Log(s, "show_error") EXCEPT !.notice_label = "plain"]
\* _show_missing_tools: the same, with the list of missing binaries.
show_missing_tools(s) ==
  [Log(s, "show_missing_tools") EXCEPT !.notice_label = "plain",
                                       !.notices = @ + 1]

\* Faulty variant: the binaries not looked for
tools_not_checked(s) == FALSE
\* not xterm_path or not tmux_path
tools_missing(s) == ~s.have_xterm \/ ~s.have_tmux

\* Faulty variant: the container taken for mapped
mapped_not_checked(s) == TRUE
\* self._term_container.winfo_ismapped()
container_mapped(s) == s.mapped

maybe_spawn_xterm(s, i) ==
  IF s.xterm_started THEN After(s, "poll")
  ELSE IF ~container_mapped(s) THEN After(s, "spawn")
  ELSE IF tools_missing(s)
  THEN show_missing_tools(s)
  ELSE IF ~i.popen_ok THEN show_error(Log(s, "Popen"))
  ELSE
    LET pid == s.nspawn + 1
        a == [Log(s, "Popen") EXCEPT
                !.xterm_proc = pid, !.xterm_started = TRUE, !.nspawn = pid,
                !.alive = @ \cup {pid}, !.booting = @ \cup {pid},
                !.tree = Append(@, [id |-> pid, xterm |-> TRUE]),
                !.win_size = NoGrid]
    IN  IF ~i.dpy_ok THEN show_error(Log(a, "Display"))
        ELSE After([Log(a, "Display") EXCEPT
                      !.x_dpy = pid, !.displays = @ \cup {pid}], "mark")

mark_tmux_ready_and_prime(s) ==
  LET a == [run_has_session(s) EXCEPT !.tmux_ready = tmux_has_session(s)]
      b == IF ~a.tmux_ready THEN a
           ELSE LET c == tmux_quiet_bell(a)
                    d == [run_first_client_tty(c) EXCEPT
                            !.client_tty = tmux_first_client_tty(c)]
                IN  IF d.pending_cd # NoneInt
                    THEN [tmux_cd_to(d, d.pending_cd) EXCEPT
                            !.pending_cd = NoneInt]
                    ELSE d
  IN  After(After(b, "poll"), "discover")

(* ------------------------- keep-alive / respawn ----------------------- *)

\* Faulty variant: a respawn that leaves the started flag set
respawn_keeps_started(s, i) ==
  LET s0 == [Log(s, "respawn") EXCEPT !.last_full_respawn = s.now]
      a == IF s0.have_tmux THEN kill_server(s0) ELSE s0
      b == IF a.xterm_proc # NoneInt
           THEN terminate(a, a.xterm_proc, i.term_exits) ELSE a
      c == [b EXCEPT !.xterm_proc = NoneInt,
                     !.tmux_ready = FALSE, !.client_tty = NoneInt,
                     !.x_child = NoneInt]
  IN  maybe_spawn_xterm(Log(c, "handle cleared"), i)

\* Faulty variant: a respawn that keeps the client id and the cached window
respawn_keeps_client(s, i) ==
  LET s0 == [Log(s, "respawn") EXCEPT !.last_full_respawn = s.now]
      a == IF s0.have_tmux THEN kill_server(s0) ELSE s0
      b == IF a.xterm_proc # NoneInt
           THEN terminate(a, a.xterm_proc, i.term_exits) ELSE a
      c == [b EXCEPT !.xterm_proc = NoneInt, !.xterm_started = FALSE,
                     !.tmux_ready = FALSE]
  IN  maybe_spawn_xterm(Log(c, "handle cleared"), i)

respawn_xterm_and_tmux(s, i) ==
  LET s0 == [Log(s, "respawn") EXCEPT !.last_full_respawn = s.now]
      a == IF s0.have_tmux THEN kill_server(s0) ELSE s0
      b == IF a.xterm_proc # NoneInt
           THEN terminate(a, a.xterm_proc, i.term_exits) ELSE a
      c == [b EXCEPT !.xterm_proc = NoneInt, !.xterm_started = FALSE,
                     !.tmux_ready = FALSE, !.client_tty = NoneInt,
                     !.x_child = NoneInt]
  IN  maybe_spawn_xterm(Log(c, "handle cleared"), i)

restart_tmux_session(s) ==
  IF ~s.have_tmux THEN Log(s, "restart")
  ELSE
    LET a == Log(Log(s, "restart"), "new-session -ds")
    IN  IF s.session \/ ~s.tmux_dir THEN a
        ELSE LET b == [new_session(a, NoneInt) EXCEPT !.tmux_ready = TRUE]
                 c == tmux_quiet_bell(b)
                 d == [run_first_client_tty(c) EXCEPT
                         !.client_tty = tmux_first_client_tty(c)]
             IN  tmux_cd_to(d, d.cwd)

\* self._xterm_proc and self._xterm_proc.poll() is not None
proc_dead(s) == s.xterm_proc # NoneInt /\ s.xterm_proc \notin s.alive
\* Faulty variant: the cooldown test dropped
cooldown_not_tested(s) == TRUE
\* Faulty variant: the cooldown measured from the start of the clock
cooldown_from_epoch(s) == s.now >= CooldownTicks
\* now - self._last_respawn >= self.RESPAWN_COOLDOWN
cooldown_elapsed(s) == s.now - s.last_respawn >= CooldownTicks

\* Faulty variant: no return after the respawn
ensure_alive_falls_through(s, i) ==
  LET a == IF proc_dead(s) /\ cooldown_elapsed(s)
           THEN respawn_xterm_and_tmux([s EXCEPT !.last_respawn = s.now], i)
           ELSE s
      b == run_has_session(a)
  IN  IF ~tmux_has_session(b) /\ cooldown_elapsed(s)
      THEN restart_tmux_session([b EXCEPT !.last_respawn = b.now])
      ELSE b

ensure_alive(s, i) ==
  IF proc_dead(s)
  THEN IF cooldown_elapsed(s)
       THEN respawn_xterm_and_tmux([s EXCEPT !.last_respawn = s.now], i)
       ELSE s
  ELSE LET a == run_has_session(s)
       IN  IF ~tmux_has_session(a) /\ cooldown_elapsed(a)
           THEN restart_tmux_session([a EXCEPT !.last_respawn = a.now])
           ELSE a

(* ------------------------------- timers ------------------------------- *)

\* Faulty variant: every reported directory taken for a change
cwd_always_changed(s, p) == TRUE
\* self._last_tmux_cwd is None or p != self._last_tmux_cwd
cwd_changed(s, p) == s.last_tmux_cwd = NoneInt \/ p # s.last_tmux_cwd

\* The try block of _poll_tmux_cwd.
poll_body(s, i) ==
  LET a == ensure_alive(s, i)
      b == IF ~a.tmux_ready
           THEN [run_has_session(a) EXCEPT !.tmux_ready = tmux_has_session(a)]
           ELSE a
      c == IF ~b.tmux_ready THEN b
           ELSE LET g == run_get_cwd(b)
                    pane_cwd == tmux_get_cwd(b)
                    p == Resolve(pane_cwd)
                IN  IF pane_cwd = NoneInt THEN g
                    ELSE IF cwd_changed(g, p)
                    THEN LET h == [g EXCEPT !.last_tmux_cwd = p]
                         IN  IF p # Resolve(h.cwd) THEN set_cwd(h, p) ELSE h
                    ELSE g
  IN  c

\* Faulty variant: the poll rescheduled only while the session answers
poll_stops_on_failure(s, i) ==
  LET c == poll_body(s, i)
  IN  IF c.tmux_ready THEN After(c, "poll") ELSE c
\* finally: self.after(self.POLL_MS, self._poll_tmux_cwd)
poll_tmux_cwd(s, i) == After(poll_body(s, i), "poll")

(* ------------------------------- Xlib --------------------------------- *)

\* query_tree().children of the container: the window xterm -into puts there
\* for each live xterm (id: its pid; xterm: get_wm_class() names xterm), and
\* whatever else the server lists.
Children(s) == s.tree

\* Faulty variant: the first child taken whatever its class
discover_first(children) ==
  IF Len(children) > 0 THEN children[1].id ELSE NoneInt
\* The loop of _discover_xchild over tree.children: the first child of class
\* xterm, else the first child, else None.
discover_choice(children) ==
  LET hits == {k \in 1..Len(children) : children[k].xterm}
  IN  IF hits # {} THEN children[CHOOSE k \in hits : \A j \in hits : k <= j].id
      ELSE IF Len(children) > 0 THEN children[1].id
      ELSE NoneInt

\* ok: query_tree() answers (it raises otherwise).
discover_xchild(s, ok) ==
  IF s.x_child # NoneInt \/ s.x_dpy = NoneInt THEN s
  ELSE IF ~ok
  THEN [Log(Log(s, "query_tree"), "query failed") EXCEPT !.x_child = NoneInt]
  ELSE [Log(s, "query_tree") EXCEPT !.x_child = discover_choice(Children(s))]

\* Faulty variant: the cached window forgotten after every configure
resize_forgets_child(s, w_px, h_px, i) ==
  IF s.x_dpy = NoneInt THEN s
  ELSE
    LET a == IF s.x_child = NoneInt THEN discover_xchild(s, i.tree_ok) ELSE s
        b == [Log(a, "configure") EXCEPT !.x_child = NoneInt]
    IN  IF a.x_child = NoneInt THEN a
        ELSE IF a.x_child \in a.alive
        THEN [b EXCEPT !.win_size = <<Max(1, w_px), Max(1, h_px)>>]
        ELSE b

\* Faulty variant: the cached window kept when the configure request raises
resize_error_ignored(s) == Log(s, "XError")
\* except Exception: self._x_child = None
resize_error(s) == [Log(s, "XError") EXCEPT !.x_child = NoneInt]

\* A configure request on a window that is gone raises or not, as the X
\* error handling of the build decides (i.xerr).
resize_xterm_child(s, w_px, h_px, i) ==
  IF s.x_dpy = NoneInt THEN s
  ELSE
    LET a == IF s.x_child = NoneInt THEN discover_xchild(s, i.tree_ok) ELSE s
        b == Log(a, "configure")
    IN  IF a.x_child = NoneInt THEN a
        ELSE IF a.x_child \in a.alive
        THEN [b EXCEPT !.win_size = <<Max(1, w_px), Max(1, h_px)>>]
        ELSE IF i.xerr THEN resize_error(b)
        ELSE b

(* --------------------------- immediate sizing ------------------------- *)

\* Faulty variant: the estimate taken with integer division
smooth_floor_div(old, px, ref) ==
  ((100 - ALPHA_PCT) * old + ALPHA_PCT * ((px \div Max(ref, 1)) * CellScale))
    \div 100
\* Faulty variant: the cell size never refined
smooth_never(old, px, ref) == old
\* The smoothed cell size: (1 - alpha) * old + alpha * (px / ref), in fixed
\* point.
smooth(old, px, ref) ==
  ((100 - ALPHA_PCT) * old + ALPHA_PCT * ((px * CellScale) \div Max(ref, 1)))
    \div 100

\* Faulty variant: the grid not clamped
want_unclamped(lo, hi, px, cell) ==
  RoundHalfEven(px * CellScale, Max(cell, CellScale))
\* max(lo, min(hi, int(round(px / max(cell, 1.0)))))
want(lo, hi, px, cell) ==
  Max(lo, Min(hi, RoundHalfEven(px * CellScale, Max(cell, CellScale))))

\* Faulty variant: the client's columns compared with one more than wanted
needs_refresh_off_by_one(cc, cols, rows) == cc # <<cols + 1, rows>>
\* Faulty variant: the client resized whatever its grid
always_refresh(cc, cols, rows) == TRUE
\* cc != (want_cols, want_rows)
needs_refresh(cc, cols, rows) == cc # <<cols, rows>>

\* _immediate_resize from "Refine cell size" on.
refine_and_refresh(s, w_px, h_px, i) ==
  LET pane == tmux_get_pane_size(s)
      cur == tmux_get_client_size(s)
      ref_cols == PyOr(pane[1], PyOr(cur[1], DEFAULT_COLS))
      ref_rows == PyOr(pane[2], PyOr(cur[2], DEFAULT_ROWS))
      upd == ref_cols > 0 /\ ref_rows > 0
      cw == IF upd THEN smooth(s.cell_w, w_px, ref_cols) ELSE s.cell_w
      ch == IF upd THEN smooth(s.cell_h, h_px, ref_rows) ELSE s.cell_h
      want_cols == want(MIN_COLS, MAX_COLS, w_px, cw)
      want_rows == want(MIN_ROWS, MAX_ROWS, h_px, ch)
      a == run_get_client_size(run_get_client_size(run_get_pane_size(s)))
      b == [a EXCEPT !.cell_w = cw, !.cell_h = ch,
                     !.wanted = <<want_cols, want_rows>>]
      cc == tmux_get_client_size(b)
  IN  IF needs_refresh(cc, want_cols, want_rows)
      THEN tmux_refresh_client(b, want_cols, want_rows, i.applies)
      ELSE b

immediate_resize(s, i) ==
  IF ~s.xterm_started THEN s
  ELSE Then(ensure_alive(s, i), LAMBDA a :
         LET w_px == Max(a.container[1], 1)
             h_px == Max(a.container[2], 1)
         IN  Then(resize_xterm_child(a, w_px, h_px, i), LAMBDA b :
               IF ~b.tmux_ready THEN b
               ELSE refine_and_refresh(b, w_px, h_px, i)))

(* ------------------------------ shutdown ------------------------------ *)

\* Faulty variant: the handles forgotten only when close() succeeds
close_display_unguarded(s, ok) ==
  IF s.x_dpy = NoneInt THEN [s EXCEPT !.x_child = NoneInt]
  ELSE IF ok
  THEN [Log(s, "close") EXCEPT !.displays = @ \ {s.x_dpy},
                               !.x_dpy = NoneInt, !.x_child = NoneInt]
  ELSE Log(s, "close")
\* try: self._x_dpy.close() / except: pass; then both handles forgotten
close_display(s, ok) ==
  LET c == IF s.x_dpy = NoneInt THEN s
           ELSE IF ok
           THEN [Log(s, "close") EXCEPT !.displays = @ \ {s.x_dpy}]
           ELSE Log(s, "close")
  IN  [c EXCEPT !.x_dpy = NoneInt, !.x_child = NoneInt]

terminal_cleanup(s, i) ==
  LET a == IF s.xterm_proc # NoneInt
           THEN [terminate(s, s.xterm_proc, i.term_exits) EXCEPT
                   !.xterm_proc = NoneInt]
           ELSE s
      b == IF ~a.have_tmux THEN a
           ELSE IF i.ks_ok THEN kill_server(a)
           ELSE Log(a, "kill-server")
      d == close_display(b, i.close_ok)
      \* unlinking the socket leaves a surviving server unreachable
      e == IF ~d.tmux_dir THEN d
           ELSE IF i.rm_ok
           THEN [session_lost(Log(d, "rmdir")) EXCEPT !.tmux_dir = FALSE]
           ELSE Log(d, "rmdir")
  IN  [e EXCEPT !.xterm_started = FALSE, !.tmux_ready = FALSE,
                !.last_tmux_cwd = NoneInt, !.pending_cd = NoneInt,
                !.client_tty = NoneInt, !.cleaned = TRUE]

(* ------------------------------ actions ------------------------------- *)

\* The environment's choices that matter to a callback in the current state.
Bools(relevant) == IF relevant THEN BOOLEAN ELSE {TRUE}
CanSpawn == mapped /\ have_xterm /\ have_tmux
SpawnInputs ==
  {[Nominal EXCEPT !.popen_ok = a, !.dpy_ok = b] :
     a \in Bools(CanSpawn), b \in Bools(CanSpawn)}
TickInputs ==
  {[j EXCEPT !.term_exits = a] :
     j \in SpawnInputs, a \in Bools(xterm_proc \in alive)}
ResizeInputs ==
  {[j EXCEPT !.xerr = a, !.applies = b] :
     j \in TickInputs, a \in Bools(x_child # NoneInt /\ x_child \notin alive),
     b \in Bools(session /\ attached # NoneInt)}
CleanupInputs ==
  {[Nominal EXCEPT !.term_exits = a, !.ks_ok = b, !.close_ok = c, !.rm_ok = d] :
     a \in Bools(xterm_proc \in alive), b \in Bools(have_tmux),
     c \in Bools(x_dpy # NoneInt), d \in Bools(tmux_dir)}

\* The Tk timer for callback cb fires: it is pending no more.
Fired(name, cb) == [Cur(name) EXCEPT !.after[cb] = @ - 1]
\* The callback runs dt ticks after the previous step.
Later(s, dt) == [s EXCEPT !.now = @ + dt]

\* A step of the environment: no callback ran.
Env(s) == Becomes([s EXCEPT !.op = "env"])

MaybeSpawnXterm ==
  /\ after["spawn"] > 0
  /\ \E i \in SpawnInputs :
       Becomes(maybe_spawn_xterm(Fired("_maybe_spawn_xterm", "spawn"), i))

MarkTmuxReadyAndPrime ==
  /\ after["mark"] > 0
  /\ Becomes(mark_tmux_ready_and_prime(
               Fired("_mark_tmux_ready_and_prime", "mark")))

PollTmuxCwd ==
  /\ after["poll"] > 0
  /\ \E i \in TickInputs :
       Becomes(poll_tmux_cwd(Fired("_poll_tmux_cwd", "poll"), i))

PeriodicSizeReconcile(dt) ==
  /\ after["size"] > 0 /\ now + dt <= MaxTime
  /\ \E i \in ResizeInputs :
       Becomes(After(immediate_resize(
                 Later(Fired("_immediate_resize", "size"), dt), i), "size"))

\* <Configure> on the container, which has the size sz now.
OnContainerConfigure(szs, dt) ==
  /\ now + dt <= MaxTime
  /\ \E sz \in szs, i \in ResizeInputs :
       Becomes(immediate_resize(
                 [Later(Cur("_immediate_resize"), dt) EXCEPT
                    !.container = sz], i))

DiscoverXchild(oks) ==
  /\ after["discover"] > 0
  /\ \E ok \in oks :
       Becomes(discover_xchild(Fired("_discover_xchild", "discover"), ok))

TerminalSetCwd(ps) ==
  \E p \in ps : Becomes(terminal_set_cwd(Cur("terminal_set_cwd"), p))

\* The file panel or a menu changes the application's directory.
SetCwd == \E p \in RawPaths : Becomes(set_cwd(Cur("set_cwd"), p))

TerminalCleanup ==
  /\ ~cleaned
  /\ \E i \in CleanupInputs :
       Becomes(terminal_cleanup(Cur("_terminal_cleanup"), i))

OnTerminalClick == Becomes(on_terminal_click(Cur("_on_terminal_click")))
OnTerminalFocus == Becomes(on_terminal_focus(Cur("_on_terminal_focus")))
OnTerminalBlur == Becomes(on_terminal_blur(Cur("_on_terminal_blur")))
\* Ctrl+D pressed in a widget that carries the intercept tag.
InterceptCtrl ==
  /\ intercept_installed
  /\ Becomes(intercept_ctrl(Cur("_intercept_ctrl"), "d"))

(* ---------------------------- environment ----------------------------- *)

Tick == now < MaxTime /\ Env([Cur("env") EXCEPT !.now = @ + 1])

\* The terminal pane is shown.
MapContainer == ~mapped /\ Env([Cur("env") EXCEPT !.mapped = TRUE])
\* The terminal pane is hidden (Zeropad.toggle_terminal).
UnmapContainer == mapped /\ Env([Cur("env") EXCEPT !.mapped = FALSE])

\* xterm runs its command, `tmux new-session -s zeropad`: a duplicate session
\* name or a missing socket directory makes tmux, and with it xterm, exit.
XtermRunsTmux ==
  \E p \in booting :
    LET s == [Cur("env") EXCEPT !.booting = @ \ {p}]
    IN  IF s.session \/ ~s.tmux_dir THEN Env(proc_gone(s, p))
        ELSE Env(new_session(s, p))

\* xterm exits or is killed; the tmux server keeps the session.
XtermDies == \E p \in alive : Env(proc_gone(Cur("env"), p))

\* The shell in the pane exits, or the server dies.
SessionEnds == session /\ Env(session_lost(Cur("env")))

\* The user changes directory in the shell.
UserCd ==
  /\ session
  /\ \E p \in Paths \ {sess_cwd} : Env([Cur("env") EXCEPT !.sess_cwd = p])

\* The shell runs the injected cd.
ShellRunsKeys ==
  /\ session /\ sess_keys # NoneInt
  /\ Env([Cur("env") EXCEPT !.sess_cwd = Resolve(sess_keys),
                            !.sess_keys = NoneInt])

\* The session's client and pane take another size.
SessionResized(gs) ==
  \E g \in gs \ {sess_pane} :
    Env([Cur("env") EXCEPT !.sess_pane = g, !.sess_client = g])

(* --------------------------- specification ---------------------------- *)

\* The state init_terminal_panel leaves (its mkdir having succeeded), with
\* the container sz and a session that would report grid g.
InitWith(sz, g) ==
  /\ xterm_proc = NoneInt /\ xterm_started = FALSE /\ tmux_ready = FALSE
  /\ last_tmux_cwd = NoneInt /\ pending_cd = NoneInt
  /\ cell_w = DEFAULT_CELL_W * CellScale /\ cell_h = DEFAULT_CELL_H * CellScale
  /\ client_tty = NoneInt /\ x_dpy = NoneInt /\ x_child = NoneInt
  /\ last_respawn = 0
  /\ terminal_active = FALSE /\ intercept_installed = FALSE
  /\ cwd = StartDir
  /\ after = [cb \in {"spawn", "mark", "poll", "size", "discover"} |->
                IF cb \in {"spawn", "size"} THEN 1 ELSE 0]
  /\ now = StartTime /\ mapped = FALSE
  /\ have_xterm \in BOOLEAN /\ have_tmux \in BOOLEAN
  /\ nspawn = 0 /\ alive = {} /\ booting = {}
  /\ session = FALSE /\ attached = NoneInt /\ sess_cwd = StartDir
  /\ sess_keys = NoneInt /\ sess_client = g /\ sess_pane = g
  /\ tmux_dir = TRUE /\ displays = {}
  /\ container = sz /\ win_size = NoGrid /\ tree = <<>>
  /\ cleaned = FALSE /\ last_full_respawn = 0 /\ notices = 0
  /\ notice_label = "none"
  /\ op = "init" /\ log = <<>> /\ cds = <<>> /\ sizes = <<>>
  /\ wanted = NoGrid

\* The supervisor specification: the whole lifecycle, with the geometry at
\* rest (the session's grid is the container's at the default cell size).
RestGrid == <<DEFAULT_COLS, DEFAULT_ROWS>>
RestSize == <<DEFAULT_COLS * DEFAULT_CELL_W, DEFAULT_ROWS * DEFAULT_CELL_H>>

Init == InitWith(RestSize, RestGrid)

Next ==
  \/ MaybeSpawnXterm \/ MarkTmuxReadyAndPrime \/ PollTmuxCwd
  \/ PeriodicSizeReconcile(0) \/ OnContainerConfigure({RestSize}, 0)
  \/ DiscoverXchild({TRUE})
  \/ Tick \/ MapContainer \/ XtermRunsTmux \/ XtermDies \/ SessionEnds

Spec == Init /\ [][Next]_vars

\* The cwd bridge: the way to readiness and every directory change of the
\* application, the user and the shell, at one instant of the clock.
NextCwd ==
  \/ MaybeSpawnXterm \/ MarkTmuxReadyAndPrime \/ PollTmuxCwd
  \/ TerminalSetCwd(RawPaths) \/ SetCwd \/ UserCd \/ ShellRunsKeys
  \/ MapContainer \/ XtermRunsTmux \/ SessionEnds

SpecCwd == Init /\ [][NextCwd]_vars

\* Startup failure and shutdown: every callback of the panel, the clock
\* standing still.
NextDown ==
  \/ MaybeSpawnXterm \/ MarkTmuxReadyAndPrime \/ PollTmuxCwd
  \/ PeriodicSizeReconcile(0) \/ OnContainerConfigure({RestSize}, 0)
  \/ DiscoverXchild({TRUE}) \/ TerminalSetCwd({LinkPath})
  \/ OnTerminalClick \/ OnTerminalFocus \/ OnTerminalBlur \/ InterceptCtrl
  \/ TerminalCleanup
  \/ MapContainer \/ XtermRunsTmux \/ XtermDies \/ SessionEnds

SpecDown == Init /\ [][NextDown]_vars

\* The size reconciler: a started, ready panel (the state
\* _mark_tmux_ready_and_prime leaves when it finds the session), any
\* container size and any grid reported, one reconciliation per tick.
ContainerSizes == {<<1, 1>>, <<800, 480>>, <<10000, 10000>>}
GridReports == {NoGrid, <<0, 0>>, <<DEFAULT_COLS, DEFAULT_ROWS>>, <<MAX_COLS, MAX_ROWS>>}

ReadyWith(sz, g, tr, xc, xd) ==
  /\ xterm_proc = 1 /\ xterm_started = TRUE /\ tmux_ready = TRUE
  /\ last_tmux_cwd = NoneInt /\ pending_cd = NoneInt
  /\ cell_w = DEFAULT_CELL_W * CellScale /\ cell_h = DEFAULT_CELL_H * CellScale
  /\ client_tty = 1 /\ x_dpy = xd /\ x_child = xc
  /\ last_respawn = 0
  /\ terminal_active = FALSE /\ intercept_installed = FALSE
  /\ cwd = StartDir
  /\ after = [cb \in {"spawn", "mark", "poll", "size", "discover"} |->
                IF cb \in {"poll", "size", "discover"} THEN 1 ELSE 0]
  /\ now = StartTime /\ mapped = TRUE
  /\ have_xterm = TRUE /\ have_tmux = TRUE
  /\ nspawn = 1 /\ alive = {1} /\ booting = {}
  /\ session = TRUE /\ attached = 1 /\ sess_cwd = StartDir
  /\ sess_keys = NoneInt /\ sess_client = g /\ sess_pane = g
  /\ tmux_dir = TRUE /\ displays = {xd} \ {NoneInt}
  /\ container = sz /\ win_size = NoGrid
  /\ tree = tr
  /\ cleaned = FALSE /\ last_full_respawn = 0 /\ notices = 0
  /\ notice_label = "none"

ReadyState(sz, g) ==
  ReadyWith(sz, g, <<[id |-> 1, xterm |-> TRUE]>>, NoneInt, 1)

InitGeom ==
  /\ \E sz \in ContainerSizes, g \in GridReports : ReadyState(sz, g)
  /\ op = "init" /\ log = <<>> /\ cds = <<>> /\ sizes = <<>>
  /\ wanted = NoGrid

NextGeom ==
  \/ PeriodicSizeReconcile(1) \/ OnContainerConfigure(ContainerSizes, 1)
  \/ SessionResized(GridReports) \/ DiscoverXchild({TRUE})

SpecGeom == InitGeom /\ [][NextGeom]_vars

\* The reconciler left to itself under a fair size timer: the container
\* keeps its size and nothing but refresh-client changes the session's grid.
NextStable == PeriodicSizeReconcile(0)

SpecStable ==
  InitGeom /\ [][NextStable]_vars /\ WF_vars(PeriodicSizeReconcile(0))

\* The cell estimate in the long run: the smallest container, the session
\* reporting its largest grid, nothing or zero, any number of
\* reconciliations at one instant of the clock.
SmallestContainer == <<1, 1>>
InitCell ==
  /\ ReadyState(SmallestContainer, <<MAX_COLS, MAX_ROWS>>)
  /\ op = "init" /\ log = <<>> /\ cds = <<>> /\ sizes = <<>>
  /\ wanted = NoGrid

NextCell ==
  \/ PeriodicSizeReconcile(0) \/ OnContainerConfigure({SmallestContainer}, 0)
  \/ SessionResized({NoGrid, <<0, 0>>, <<MAX_COLS, MAX_ROWS>>})

SpecCell == InitCell /\ [][NextCell]_vars

\* The discovery of the embedded window: a ready panel whose container lists
\* any children (windows of xterm and of other clients, classes readable or
\* not), a window cached or not, the display open or not.
Trees ==
  UNION {{tr \in [1..n -> [id : 1..MaxChildren, xterm : BOOLEAN]] :
            \A a, b \in 1..n : a # b => tr[a].id # tr[b].id} :
         n \in 0..MaxChildren}
InitDiscover ==
  /\ \E tr \in Trees, xc \in {NoneInt} \cup (1..MaxChildren),
        xd \in {NoneInt, 1} :
       ReadyWith(RestSize, RestGrid, tr, xc, xd)
  /\ op = "init" /\ log = <<>> /\ cds = <<>> /\ sizes = <<>>
  /\ wanted = NoGrid

NextDiscover == DiscoverXchild(BOOLEAN)

SpecDiscover == InitDiscover /\ [][NextDiscover]_vars

\* Startup under fair timers: Tk runs every pending callback in the end; the
\* pane may be shown and hidden at any time.
NextLive ==
  \/ MaybeSpawnXterm \/ MarkTmuxReadyAndPrime \/ PollTmuxCwd
  \/ MapContainer \/ UnmapContainer
  \/ XtermRunsTmux \/ XtermDies \/ SessionEnds

SpecLive ==
  /\ Init /\ [][NextLive]_vars
  /\ WF_vars(MaybeSpawnXterm) /\ WF_vars(MarkTmuxReadyAndPrime)
  /\ WF_vars(PollTmuxCwd)

\* The ready state SpecGeom starts in is one the supervisor reaches.
ReadyStateReached == ~ReadyState(RestSize, RestGrid)

(* ------------------------------ properties ---------------------------- *)

\* x is in the log l / how often.
Did(l, x) == \E k \in 1..Len(l) : l[k] = x
Count(l, x) == Cardinality({k \in 1..Len(l) : l[k] = x})

\* This step is a supervisor tick (_ensure_alive ran, from the cwd poll or
\* from the resize path) that found the host process dead.
TickSawDead ==
  /\ op' = "_poll_tmux_cwd" \/ (op' = "_immediate_resize" /\ xterm_started)
  /\ xterm_proc # NoneInt /\ xterm_proc \notin alive

\* C1 (as amended): two full respawns are never less than RESPAWN_COOLDOWN
\* apart, so of two ticks that close together at most one respawns; and a
\* tick that finds the host process dead when RESPAWN_COOLDOWN has elapsed
\* since the last recovery of either kind (_last_respawn) respawns.
C1_RespawnCooldown ==
  [][/\ Did(log', "respawn") => now' - last_full_respawn >= CooldownTicks
     /\ (TickSawDead /\ now' - last_respawn >= CooldownTicks)
          => Count(log', "respawn") = 1]_vars

\* C1 as claimed: the cooldown of a respawn runs from the last full respawn.
C1_AsClaimed ==
  [][/\ Did(log', "respawn") => now' - last_full_respawn >= CooldownTicks
     /\ (TickSawDead /\ now' - last_full_respawn >= CooldownTicks)
          => Count(log', "respawn") = 1]_vars

\* A tick found the process dead less than a cooldown after a full respawn
\* and did not respawn again.
C1_Witness ==
  /\ op \in {"_poll_tmux_cwd", "_immediate_resize"}
  /\ xterm_proc # NoneInt /\ xterm_proc \notin alive
  /\ ~Did(log, "respawn")
  /\ last_full_respawn > 0 /\ now - last_full_respawn < CooldownTicks

\* The elements of xs occur in the log l in this order, from place k on.
RECURSIVE InOrderFrom(_, _, _)
InOrderFrom(l, xs, k) ==
  \/ xs = <<>>
  \/ \E j \in k..Len(l) : l[j] = Head(xs) /\ InOrderFrom(l, Tail(xs), j + 1)
InOrder(l, xs) == InOrderFrom(l, xs, 1)

\* The commands of the control channel (tmux -S <socket> ...).
ControlCommands ==
  {"has-session", "list-clients", "display-message cwd",
   "display-message pane", "display-message client", "refresh-client",
   "send-keys C-u", "send-keys C-k", "send-keys cd", "send-keys Enter",
   "send-keys C-l", "send-keys C-d", "set-option bell-action",
   "set-option visual-activity", "set-option monitor-activity",
   "kill-server", "new-session -ds"}
NoCommand(l) == \A k \in 1..Len(l) : l[k] \notin ControlCommands

\* The callbacks Tk timers run.
TimerCallbacks ==
  {"_poll_tmux_cwd", "_immediate_resize", "_maybe_spawn_xterm",
   "_mark_tmux_ready_and_prime", "_discover_xchild"}

\* C2: whenever the session becomes ready (by whichever path) while a
\* directory request is pending, that step issues exactly one directory
\* injection, for the pending (most recently requested) path, and clears
\* pending_cd.
C2_PendingAppliedOnce ==
  [][(~tmux_ready /\ tmux_ready' /\ pending_cd # NoneInt)
       => (cds' = <<pending_cd>> /\ pending_cd' = NoneInt)]_vars

\* C3: with the session ready and present, every host-originated directory
\* change (terminal_set_cwd) issues exactly one directory injection, for the
\* path requested, and a poll, whatever change of the session it observes
\* and reports to the application, issues none: the injections are as many
\* as the host-originated changes.
C3_NoPingPong ==
  [][(tmux_ready /\ session) =>
       /\ op' = "terminal_set_cwd"
            => (Len(cds') = 1 /\ last_tmux_cwd' = Resolve(cds'[1])
                /\ Count(log', "send-keys cd") = 1)
       /\ op' = "_poll_tmux_cwd"
            => (cds' = <<>> /\ ~Did(log', "send-keys cd"))]_vars

\* A poll saw the directory the session moved to, told the application, and
\* injected nothing.
C3_Witness ==
  /\ op = "_poll_tmux_cwd" /\ tmux_ready /\ session
  /\ Did(log, "set_cwd") /\ cds = <<>>
  /\ cwd = sess_cwd /\ last_tmux_cwd = sess_cwd /\ cwd # StartDir

\* C4: the target grid a reconciliation computes has 20 <= cols <= 400 and
\* 5 <= rows <= 200, whatever the container size, the cell estimate and the
\* grid the session reports.
C4_GridClamps ==
  wanted # NoGrid =>
    /\ MIN_COLS <= wanted[1] /\ wanted[1] <= MAX_COLS
    /\ MIN_ROWS <= wanted[2] /\ wanted[2] <= MAX_ROWS

\* The largest container: the grid is cut down to the upper bounds.
C4_Witness ==
  /\ op = "_immediate_resize" /\ container = <<10000, 10000>>
  /\ wanted = <<MAX_COLS, MAX_ROWS>>
  /\ cell_w < 25 * CellScale

\* The scenario of C5: a reconciliation of a ready panel with cell size
\* (8, 16) whose container is 800x480 px now and whose session reports the
\* grid 80x24 for pane and client.
C5_Scenario ==
  /\ op' = "_immediate_resize" /\ xterm_started /\ tmux_ready
  /\ cell_w = DEFAULT_CELL_W * CellScale /\ cell_h = DEFAULT_CELL_H * CellScale
  /\ container' = <<800, 480>>
  /\ tmux_get_pane_size(Cur("")) = <<DEFAULT_COLS, DEFAULT_ROWS>>
  /\ tmux_get_client_size(Cur("")) = <<DEFAULT_COLS, DEFAULT_ROWS>>

\* C5 (as amended): in the scenario the reconciliation first refines the
\* cell size to (8.7, 17.4), so it computes the target grid (92, 28) and
\* issues exactly one client-resize command, with cols = 92 and rows = 28.
C5_Reconciliation ==
  [][C5_Scenario =>
       (wanted' = <<92, 28>> /\ sizes' = << <<92, 28>> >>
        /\ Count(log', "refresh-client") = 1)]_vars

\* C5 as claimed: the target grid is (100, 30), the command's too.
C5_AsClaimed ==
  [][C5_Scenario =>
       (wanted' = <<100, 30>> /\ sizes' = << <<100, 30>> >>
        /\ Count(log', "refresh-client") = 1)]_vars

\* The first reconciliation of the scenario has run.
C5_Witness ==
  /\ op = "_immediate_resize" /\ container = <<800, 480>>
  /\ now = StartTime + 1
  /\ wanted = <<92, 28>> /\ sizes = << <<92, 28>> >>
  /\ cell_w > DEFAULT_CELL_W * CellScale /\ cell_h > DEFAULT_CELL_H * CellScale

\* C6: never two host processes alive, and a callback that respawns tears
\* the old handle down (SIGTERM to the group, the bounded wait, SIGKILL only
\* after the wait, the handle cleared) before it creates the new process.
C6_OneHostProcess ==
  /\ Cardinality(alive) <= 1
  /\ (Did(log, "respawn") /\ Did(log, "Popen")) =>
       /\ InOrder(log, <<"respawn", "SIGTERM", "wait", "handle cleared", "Popen">>)
       /\ Did(log, "SIGKILL") =>
            InOrder(log, <<"wait", "SIGKILL", "handle cleared", "Popen">>)

\* A respawn has replaced a dead process: the second process (or a later
\* one) is the only one alive.
C6_Witness ==
  /\ Did(log, "respawn") /\ Did(log, "Popen")
  /\ nspawn >= 2 /\ alive = {nspawn}

\* Popen raised (the error notice follows it at once).
PopenFailed(l) ==
  \E k \in 1..Len(l) - 1 : l[k] = "Popen" /\ l[k + 1] = "show_error"

\* C7: a tick (from the poll or from the resize path) that finds the host
\* process dead with the cooldown elapsed, the container mapped, both
\* binaries present and Popen succeeding runs exactly one teardown and one
\* spawn, restarts the cooldown, and leaves a new live process with the
\* started flag true.
C7_RespawnScenario ==
  [][(/\ TickSawDead /\ now' - last_respawn >= CooldownTicks
      /\ mapped /\ have_xterm /\ have_tmux /\ ~PopenFailed(log'))
       => /\ Count(log', "respawn") = 1 /\ Count(log', "kill-server") = 1
          /\ Count(log', "SIGTERM") = 1 /\ Count(log', "Popen") = 1
          /\ last_respawn' = now'
          /\ xterm_started'
          /\ xterm_proc' \notin {NoneInt, xterm_proc}
          /\ xterm_proc' \in alive']_vars

\* The resize path respawned: the new process runs, started is true.
C7_Witness ==
  /\ op = "_immediate_resize" /\ Count(log, "respawn") = 1
  /\ Count(log, "Popen") = 1 /\ ~PopenFailed(log)
  /\ xterm_started /\ xterm_proc = nspawn /\ xterm_proc \in alive
  /\ last_respawn = now /\ nspawn >= 2

\* C8: with a binary missing, no process is ever spawned and no session
\* exists; the notice is shown once, by the first spawn attempt (the spawn
\* timer firing with the container mapped), which schedules no retry; and no
\* timer, resize, key or cwd callback issues a control-channel command or
\* sets started or ready.
C8_MissingDependencyInert ==
  (~have_xterm \/ ~have_tmux) =>
    /\ nspawn = 0 /\ alive = {} /\ ~session
    /\ ~xterm_started /\ ~tmux_ready /\ xterm_proc = NoneInt
    /\ notices <= 1
    /\ (notices = 1) <=> (after["spawn"] = 0)
    /\ after["mark"] = 0 /\ after["poll"] = 0 /\ after["discover"] = 0
    /\ ~Did(log, "Popen")
    /\ op # "_terminal_cleanup" => NoCommand(log)

\* xterm is missing, tmux is not: the notice is up and Ctrl+D in the active
\* terminal pane was swallowed without a command.
C8_Witness ==
  /\ ~have_xterm /\ have_tmux /\ notices = 1
  /\ op = "_intercept_ctrl" /\ log = <<"break">>
  /\ pending_cd # NoneInt

\* C9: _terminal_cleanup attempts each step that applies (SIGTERM and wait
\* for a process handle, kill-server with tmux installed, close for a
\* display connection, rmdir for the private directory) whatever fails, and
\* leaves no live host process, no process handle, no display connection,
\* no cached child window, started and ready false, and the last session
\* cwd, the pending cwd and the client id cleared.
C9_ShutdownComplete ==
  [][op' = "_terminal_cleanup" =>
       /\ xterm_proc # NoneInt => InOrder(log', <<"SIGTERM", "wait">>)
       /\ alive' = {}
       /\ have_tmux => Did(log', "kill-server")
       /\ x_dpy # NoneInt => Did(log', "close")
       /\ tmux_dir => Did(log', "rmdir")
       /\ xterm_proc' = NoneInt /\ x_dpy' = NoneInt /\ x_child' = NoneInt
       /\ ~xterm_started' /\ ~tmux_ready'
       /\ last_tmux_cwd' = NoneInt /\ pending_cd' = NoneInt
       /\ client_tty' = NoneInt]_vars

\* A cleanup in which the process outlived the grace period and kill-server,
\* close and rmdir all failed.
C9_Witness ==
  /\ op = "_terminal_cleanup"
  /\ InOrder(log, <<"SIGTERM", "wait", "SIGKILL", "kill-server", "close", "rmdir">>)
  /\ session /\ displays # {} /\ tmux_dir
  /\ xterm_proc = NoneInt /\ x_dpy = NoneInt /\ ~xterm_started /\ ~tmux_ready

\* C10: after _terminal_cleanup a timer callback spawns no process, creates
\* no session, issues no control-channel command and leaves started and
\* ready false.
C10_StaleCallbacksNoOp ==
  (cleaned /\ op \in TimerCallbacks) =>
    /\ ~Did(log, "Popen") /\ NoCommand(log)
    /\ ~xterm_started /\ ~tmux_ready

\* C11: a reconciliation that computes a target grid issues no client-resize
\* command when the target is the grid the session reports for its client,
\* and exactly one, for the target, when it is not.
C11_IdempotentReconciliation ==
  [][(op' = "_immediate_resize" /\ wanted' # NoGrid) =>
       /\ wanted' = tmux_get_client_size(Cur(""))
            => (sizes' = <<>> /\ ~Did(log', "refresh-client"))
       /\ wanted' # tmux_get_client_size(Cur(""))
            => (sizes' = <<wanted'>> /\ Count(log', "refresh-client") = 1)]_vars

\* A reconciliation found the client at the target grid and sent nothing.
C11_Witness ==
  /\ op = "_immediate_resize" /\ wanted # NoGrid
  /\ wanted = tmux_get_client_size(Cur("")) /\ sizes = <<>>
  /\ Count(log, "display-message client") = 2

\* C12: both components of the smoothed cell size are greater than zero.
C12_CellPositive == cell_w > 0 /\ cell_h > 0

\* The estimate has shrunk below a tenth of a pixel in both directions.
C12_Witness ==
  /\ op = "_immediate_resize" /\ container = SmallestContainer
  /\ cell_w * 10 < CellScale /\ cell_h * 10 < CellScale
  /\ cell_w > 0 /\ cell_h > 0

\* The pixel size _immediate_resize hands to _resize_xterm_child in the next
\* step.
NextPixels == <<Max(container'[1], 1), Max(container'[2], 1)>>

\* C13: a _resize_xterm_child on a live child window gives the window the
\* size asked for and keeps the cached handle; when the window has that size
\* already (an earlier call with the same dimensions), the call changes
\* neither the size nor the handle.
C13_IdempotentGeometry ==
  [][(/\ op' = "_immediate_resize" /\ xterm_started /\ x_dpy # NoneInt
      /\ x_child # NoneInt /\ x_child \in alive /\ xterm_proc \in alive)
       => /\ win_size' = NextPixels /\ x_child' = x_child
          /\ win_size = NextPixels => UNCHANGED <<win_size, x_child>>]_vars

\* A configure of the cached live window that had the size asked for.
C13_Witness ==
  /\ op = "_immediate_resize" /\ now >= StartTime + 2
  /\ Count(log, "configure") = 1 /\ ~Did(log, "query_tree")
  /\ x_child \in alive /\ win_size = container
  /\ container = <<800, 480>>

\* This step is a supervisor tick: _ensure_alive runs.
IsTick ==
  op' = "_poll_tmux_cwd" \/ (op' = "_immediate_resize" /\ xterm_started)

\* C14: on a tick with the cooldown elapsed, a dead host process gets the
\* full respawn and no session-only recreation; a live host process whose
\* session is missing gets the session-only recreation alone: no signal, no
\* respawn, no new process, the same handle.
C14_RecoveryPath ==
  [][(IsTick /\ now' - last_respawn >= CooldownTicks) =>
       /\ (xterm_proc # NoneInt /\ xterm_proc \notin alive)
            => /\ Count(log', "respawn") = 1
               /\ ~Did(log', "restart") /\ ~Did(log', "new-session -ds")
       /\ (xterm_proc \in alive /\ ~tmux_has_session(Cur("")))
            => /\ Count(log', "restart") = 1 /\ ~Did(log', "respawn")
               /\ ~Did(log', "SIGTERM") /\ ~Did(log', "SIGKILL")
               /\ ~Did(log', "Popen")
               /\ UNCHANGED <<xterm_proc, alive, nspawn>>]_vars

\* The session alone was recreated, detached, under a live host process.
C14_Witness ==
  /\ op = "_poll_tmux_cwd" /\ InOrder(log, <<"restart", "new-session -ds">>)
  /\ ~Did(log, "respawn") /\ xterm_proc \in alive
  /\ session /\ attached = NoneInt /\ tmux_ready /\ last_respawn = now

\* The callbacks of the key-intercept gateway that activate it.
ActivatingCallbacks == {"_on_terminal_click", "_on_terminal_focus"}

\* C15: the gateway is Inactive (not active, the intercept tag not
\* installed) or Active (active, the tag installed); a click or a focus-in
\* leaves it Active, a focus-out Inactive, and every other step (timers,
\* respawn, resize, cwd request, key press, shutdown, the environment) leaves
\* it as it was.
C15_InterceptStateMachine ==
  [][/\ terminal_active' = intercept_installed'
     /\ op' \in ActivatingCallbacks => terminal_active'
     /\ op' = "_on_terminal_blur" => ~terminal_active'
     /\ op' \notin ActivatingCallbacks \cup {"_on_terminal_blur"}
          => terminal_active' = terminal_active]_vars

\* The shutdown ran with the gateway Active, and Active it stays.
C15_Witness ==
  /\ op = "_terminal_cleanup" /\ cleaned
  /\ terminal_active /\ intercept_installed

\* C16: the handler of Ctrl+D, with the gateway active, sends the chord to
\* the session (send-keys C-d) and returns "break"; with the gateway
\* inactive it sends nothing and lets the event through.
C16_ChordHandling ==
  [][op' = "_intercept_ctrl" =>
       /\ terminal_active => log' = <<"send-keys C-d", "break">>
       /\ ~terminal_active => log' = <<>>]_vars

\* The callbacks Tk runs for an input event.
InputCallbacks ==
  {"_on_terminal_click", "_on_terminal_focus", "_on_terminal_blur",
   "_intercept_ctrl"}

\* C17: whenever an input event is dispatched while the gateway is active,
\* every widget of the tree has the intercept tag as its first bindtag, the
\* widgets created after the activation too.
C17_InterceptCoverage ==
  [][(terminal_active /\ op' \in InputCallbacks)
       => (intercept_installed /\ notice_label # "plain")]_vars

\* C18: a step that issues a directory injection leaves ready true (the
\* flag is set before _tmux_cd_to is called and not cleared after it), and a
\* terminal_set_cwd made while ready is false issues no command: it only
\* stores the resolved path.
C18_NoInjectionBeforeReady ==
  [][/\ (cds' # <<>> \/ Did(log', "send-keys cd")) => (tmux_ready' /\ have_tmux)
     /\ (op' = "terminal_set_cwd" /\ ~tmux_ready)
          => (log' = <<>> /\ cds' = <<>> /\ pending_cd' # NoneInt
              /\ ~tmux_ready')]_vars

\* A request made while xterm was starting: stored, nothing sent.
C18_Witness ==
  /\ op = "terminal_set_cwd" /\ xterm_started /\ ~tmux_ready
  /\ pending_cd = StartDir /\ log = <<>> /\ cds = <<>>

\* Two calls of terminal_set_cwd in a row, both for the path p, from the
\* current state: the state after the second, the trace of both in it.
SetCwdTwice(p) ==
  terminal_set_cwd(terminal_set_cwd(Cur("terminal_set_cwd"), p), p)

\* C19: with the session ready, two calls of terminal_set_cwd in a row for
\* the same path issue one directory injection, not two.
C19_IdempotentCd ==
  tmux_ready => \A p \in RawPaths : Len(SetCwdTwice(p).cds) = 1

\* C20: a step that takes ready from false to true issues the three
\* bell-suppression commands and resolves the client identifier
\* (list-clients, the result kept in _client_tty).
C20_ReadinessSideEffects ==
  [][(~tmux_ready /\ tmux_ready') =>
       /\ InOrder(log', <<"set-option bell-action",
                          "set-option visual-activity",
                          "set-option monitor-activity">>)
       /\ Did(log', "list-clients")
       /\ client_tty' = attached']_vars

\* C21: no callback calls Popen while the container is not mapped; a spawn
\* attempt on an unmapped container does nothing but schedule itself again;
\* and with both binaries present, if the container is mapped from some
\* time on, Popen is called in the end.
C21_SpawnGuard ==
  /\ [][/\ Did(log', "Popen") => mapped
        /\ (op' = "_maybe_spawn_xterm" /\ ~xterm_started /\ ~mapped)
             => /\ log' = <<>> /\ after' = after
                /\ UNCHANGED <<xterm_proc, xterm_started, nspawn, alive>>]_vars
  /\ (have_xterm /\ have_tmux) => (<>[]mapped => <>Did(log, "Popen"))

\* A spawn attempt found the container unmapped and put itself off.
C21_Witness ==
  /\ op = "_maybe_spawn_xterm" /\ ~mapped /\ ~xterm_started
  /\ log = <<>> /\ after["spawn"] = 1 /\ nspawn = 0

\* C22: on a poll of a ready panel whose session answers (the tick itself
\* recreating nothing), a reported directory that differs from _last_tmux_cwd
\* becomes _last_tmux_cwd, and set_cwd is called if and only if it also
\* differs from the application's directory; a reported directory equal to
\* _last_tmux_cwd changes nothing and set_cwd is not called.
C22_PollNotification ==
  [][(/\ op' = "_poll_tmux_cwd" /\ tmux_ready /\ session
      /\ ~Did(log', "restart") /\ ~Did(log', "respawn"))
       => LET q == Resolve(sess_cwd)
          IN  IF q # last_tmux_cwd
              THEN /\ last_tmux_cwd' = q
                   /\ Did(log', "set_cwd") <=> q # cwd
                   /\ cwd' = q
              ELSE /\ last_tmux_cwd' = last_tmux_cwd
                   /\ ~Did(log', "set_cwd")
                   /\ cwd' = cwd]_vars

\* A poll found the shell in another directory than the application and
\* told the application.
C22_Witness ==
  /\ op = "_poll_tmux_cwd" /\ Did(log, "set_cwd") /\ tmux_ready
  /\ cwd = last_tmux_cwd /\ cwd # StartDir

\* C23: whenever the session is marked ready a host process has been started
\* (ready implies started), and once _terminal_cleanup has run the panel is
\* neither started nor ready again.
C23_SupervisorOrder ==
  /\ tmux_ready => xterm_started
  /\ cleaned => (~xterm_started /\ ~tmux_ready)

\* C24: in a reconciliation that does not respawn, a configure request that
\* raises leaves no cached window; a reconciliation that starts without a
\* cached window (the display open) runs the discovery, and before any
\* configure request; and a configure request that does not raise on a
\* cached window keeps that window and runs no discovery.
C24_ResizeFailureRecovery ==
  [][(op' = "_immediate_resize" /\ ~Did(log', "respawn")) =>
       /\ Did(log', "XError") => x_child' = NoneInt
       /\ (xterm_started /\ x_dpy # NoneInt /\ x_child = NoneInt)
            => /\ Did(log', "query_tree")
               /\ Did(log', "configure")
                    => InOrder(log', <<"query_tree", "configure">>)
       /\ (x_child # NoneInt /\ Did(log', "configure")
             /\ ~Did(log', "XError"))
            => (x_child' = x_child /\ ~Did(log', "query_tree"))]_vars

\* The configure request on the window of a dead xterm raised, and the
\* cached window is forgotten.
C24_Witness ==
  /\ op = "_immediate_resize" /\ InOrder(log, <<"configure", "XError">>)
  /\ x_child = NoneInt /\ x_dpy # NoneInt /\ xterm_proc \notin alive

\* C25: _discover_xchild does nothing when a window is cached or no display
\* is open; otherwise it caches the first child of the container whose class
\* names xterm, or, none having that class, the first child, and caches
\* nothing when the container has no children or the query fails.
C25_DiscoveryChoice ==
  [][op' = "_discover_xchild" =>
       LET n == Len(tree)
           X == {k \in 1..n : tree[k].xterm}
       IN  IF x_child # NoneInt \/ x_dpy = NoneInt
           THEN x_child' = x_child /\ log' = <<>>
           ELSE IF Did(log', "query failed") \/ n = 0
           THEN x_child' = NoneInt
           ELSE IF X = {} THEN x_child' = tree[1].id
           ELSE \E k \in X : /\ x_child' = tree[k].id
                              /\ \A j \in 1..(k - 1) : ~tree[j].xterm]_vars

\* The discovery passed over a first child of another class and cached the
\* xterm window behind it.
C25_Witness ==
  /\ op = "_discover_xchild" /\ log = <<"query_tree">>
  /\ Len(tree) >= 2 /\ ~tree[1].xterm /\ tree[2].xterm
  /\ x_child = tree[2].id

\* C26: a respawn or a shutdown that holds a process handle sends SIGTERM to
\* the group once, then waits once; SIGKILL is sent exactly when the wait
\* timed out, after it, and so never to a process that exited within the
\* grace period or was dead already; no other step sends a signal.
C26_TerminationOrder ==
  [][/\ ((Did(log', "respawn") \/ op' = "_terminal_cleanup")
           /\ xterm_proc # NoneInt)
          => /\ Count(log', "SIGTERM") = 1 /\ Count(log', "wait") = 1
             /\ InOrder(log', <<"SIGTERM", "wait">>)
     /\ Did(log', "SIGKILL") <=> Did(log', "TimeoutExpired")
     /\ Did(log', "SIGKILL")
          => /\ InOrder(log', <<"SIGTERM", "wait", "TimeoutExpired", "SIGKILL">>)
             /\ Count(log', "SIGKILL") = 1 /\ xterm_proc \in alive
     /\ Did(log', "SIGTERM")
          => (Did(log', "respawn") \/ op' = "_terminal_cleanup")]_vars

\* The shutdown of a live process that exited on SIGTERM: no SIGKILL.
C26_Witness ==
  /\ op = "_terminal_cleanup" /\ InOrder(log, <<"SIGTERM", "wait">>)
  /\ ~Did(log, "SIGKILL") /\ nspawn = 1 /\ alive = {}
  /\ Did(log, "close")

\* Both binaries are there, the notice is up, and the panel holds no process
\* and is not started: the last spawn attempt failed in Popen.
SpawnFailed ==
  /\ have_xterm /\ have_tmux /\ notice_label # "none" /\ ~cleaned
  /\ ~xterm_started /\ xterm_proc = NoneInt

\* C27: a spawn attempt whose Popen fails shows the error once, leaves
\* started false and schedules no _mark_tmux_ready_and_prime; and from then
\* on no timer or resize callback issues a control-channel command or leaves
\* a session where there was none.
C27_SpawnFailureInert ==
  [][/\ PopenFailed(log')
          => /\ Count(log', "show_error") = 1 /\ ~xterm_started'
             /\ after'["mark"] = after["mark"]
     /\ (SpawnFailed /\ op' \in TimerCallbacks \cup {"_immediate_resize"})
          => (NoCommand(log') /\ (~session => ~session'))]_vars

\* C28: every poll that starts with ready false queries the session
\* (has-session), and every poll, whatever its queries answered, leaves a
\* poll pending; and when from some point on the session exists and a poll
\* is pending, ready becomes true in the end.
C28_SessionRetry ==
  /\ [][op' = "_poll_tmux_cwd" =>
          /\ after'["poll"] >= 1
          /\ ~tmux_ready => Did(log', "has-session")]_vars
  /\ []([](session /\ after["poll"] > 0) => <>tmux_ready)

\* A poll found the session that _mark_tmux_ready_and_prime had not found:
\* its re-check set ready.
C28_Witness ==
  /\ op = "_poll_tmux_cwd" /\ tmux_ready /\ session
  /\ Count(log, "has-session") = 2 /\ ~Did(log, "restart")
  /\ client_tty = NoneInt

\* C29: at most one _poll_tmux_cwd callback is pending at any time.
C29_OnePollChain == after["poll"] <= 1

\* C30: when terminal_set_cwd(P) has just injected the cd for the
\* application's directory P, a poll that runs next (the shell has not run
\* the cd: the session reports the directory it was in) does not change the
\* application's directory.
C30_NoStaleRevert ==
  [][(/\ op = "terminal_set_cwd" /\ cds # <<>> /\ session
      /\ cwd = last_tmux_cwd
      /\ op' = "_poll_tmux_cwd")
       => cwd' = cwd]_vars

\* C31: while the xterm of the panel has not yet run its `tmux new-session`,
\* no step runs the session-only recreation.
C31_NoRestartDuringStartup ==
  [][(xterm_proc # NoneInt /\ xterm_proc \in booting) =>
       (~Did(log', "restart") /\ ~Did(log', "new-session -ds"))]_vars

\* C32: after a supervisor tick that queried the session (has-session) and
\* leaves no session behind (the query failed and the session was not
\* recreated), ready is false.
C32_ReadyTracksLiveness ==
  [][(IsTick /\ Did(log', "has-session") /\ ~session') => ~tmux_ready']_vars

\* C33: whenever the handler of the intercept tag returns "break", it has
\* sent the chord to the session (send-keys) before.
C33_NoDroppedChord ==
  [][Did(log', "break") => InOrder(log', <<"send-keys C-d", "break">>)]_vars

\* C34: at most one Xlib connection opened by the panel is open at any time,
\* and none after _terminal_cleanup.
C34_DisplayOwnership ==
  /\ Cardinality(displays) <= 1
  /\ cleaned => displays = {}

\* This step started a recovery action: a full respawn or a session-only
\* recreation.
Recovers == Did(log', "respawn") \/ Did(log', "restart")

\* C35: a step starts at most one recovery action, and only when at least
\* RESPAWN_COOLDOWN has passed since _last_respawn, which it sets to the
\* clock; a step that starts none leaves _last_respawn alone. So
\* _last_respawn is the time of the last recovery action of either kind, and
\* two of them are never less than RESPAWN_COOLDOWN apart.
C35_SharedCooldown ==
  [][/\ Recovers
          => /\ Count(log', "respawn") + Count(log', "restart") = 1
             /\ now' - last_respawn >= CooldownTicks
             /\ last_respawn' = now'
     /\ ~Recovers => last_respawn' = last_respawn]_vars

\* A session-only recreation ran a cooldown after a full respawn.
C35_Witness ==
  /\ Did(log, "restart") /\ ~Did(log, "respawn")
  /\ last_full_respawn > 0 /\ last_respawn = now
  /\ now - last_full_respawn >= CooldownTicks

\* The session has taken the grid of the last refresh-client of this step.
GridApplied ==
  (op = "_immediate_resize" /\ sizes # <<>>)
    => sess_client = sizes[Len(sizes)]

\* C36: with the container size unchanged, if the session takes every grid
\* it is asked for, then from some reconciliation on none issues a
\* refresh-client any more.
C36_ReconciliationStabilises == []GridApplied => <>[](sizes = <<>>)

\* A reconciliation found the client at the grid an earlier one had asked
\* for, and sent nothing.
C36_Witness ==
  /\ op = "_immediate_resize" /\ sizes = <<>> /\ wanted # NoGrid
  /\ sess_client = wanted /\ sess_client \notin GridReports

\* C37: when a click, focus or blur handler has returned, the intercept is
\* installed exactly if the terminal is active; and an install with the
\* intercept installed, like a removal with none installed, changes the
\* bindtags of no widget.
C37_InterceptFlagConsistency ==
  [][op' \in ActivatingCallbacks \cup {"_on_terminal_blur"} =>
       /\ intercept_installed' = terminal_active'
       /\ (op' \in ActivatingCallbacks /\ intercept_installed)
            => UNCHANGED <<intercept_installed, notice_label>>
       /\ (op' = "_on_terminal_blur" /\ ~intercept_installed)
            => UNCHANGED <<intercept_installed, notice_label>>]_vars

\* A focus-in with the intercept installed left the untagged notice Label
\* as it was.
C37_Witness ==
  /\ op = "_on_terminal_focus" /\ intercept_installed /\ terminal_active
  /\ notice_label = "plain"

\* C38: a step that runs a full respawn clears the per-process state before
\* it calls Popen, so afterwards the handle is the new process or none,
\* started tells whether the new process exists, ready is false, no client
\* id is held and the cached window is none or the new process's; and the
\* step leaves the pending directory, _last_tmux_cwd and the cell estimate
\* as they were.
C38_RespawnClears ==
  [][Did(log', "respawn") =>
       /\ InOrder(log', <<"respawn", "handle cleared">>)
       /\ Did(log', "Popen") => InOrder(log', <<"handle cleared", "Popen">>)
       /\ xterm_proc' \in {NoneInt, nspawn'} \ {xterm_proc}
       /\ xterm_started' <=> xterm_proc' # NoneInt
       /\ ~tmux_ready' /\ client_tty' = NoneInt
       /\ x_child' \in {NoneInt, xterm_proc'}
       /\ UNCHANGED <<pending_cd, last_tmux_cwd, cell_w, cell_h>>]_vars

\* The resize path respawned with a directory request pending: the request
\* is kept, no client id is held and the window cached is the new one.
C38_Witness ==
  /\ op = "_immediate_resize" /\ Did(log, "respawn")
  /\ xterm_proc = 2 /\ client_tty = NoneInt /\ x_child = 2
  /\ ~tmux_ready /\ xterm_started /\ pending_cd # NoneInt

\* C39: terminal_set_cwd called while ready is false stores the resolved
\* path in _pending_cd and does nothing else: no command, no injection, and
\* _last_tmux_cwd, the flags, the process handle, the timers, the session
\* and the geometry state are as before.
C39_DeferredRequestFrame ==
  /\ [][(op' = "terminal_set_cwd" /\ ~tmux_ready) =>
          /\ pending_cd' \in Paths
          /\ log' = <<>> /\ cds' = <<>> /\ sizes' = <<>>
          /\ UNCHANGED <<last_tmux_cwd, tmux_ready, xterm_started, xterm_proc,
                         client_tty, x_dpy, x_child, cell_w, cell_h, win_size,
                         container, last_respawn, after, cwd, session,
                         sess_cwd, sess_keys, sess_client, sess_pane, alive,
                         terminal_active, intercept_installed>>]_vars
  /\ [](~tmux_ready =>
          \A p \in RawPaths :
            terminal_set_cwd(Cur("terminal_set_cwd"), p)
              = [Cur("terminal_set_cwd") EXCEPT !.pending_cd = Resolve(p)])

\* A request made between the session's creation and the readiness check
\* was stored: nothing was sent to the session.
C39_Witness ==
  /\ op = "terminal_set_cwd" /\ ~tmux_ready /\ session
  /\ pending_cd = MaxPath /\ log = <<>> /\ sess_keys = NoneInt
  /\ last_tmux_cwd = NoneInt

====
